---- MODULE Spec2Model ----
(***************************************************************************)
(* Seat reservation core of the movie-ticket booking backend:              *)
(* movies/views.py (book_seat, cancel_booking), movies/models.py (Show,    *)
(* Booking) and the expiry sweep (management command                        *)
(* cleanup_expired_bookings / utils.cleanup_expired_bookings).              *)
(*                                                                         *)
(* Time is counted in units of 15 minutes: timedelta(minutes=30) is 2      *)
(* units and timedelta(hours=2) is 8 units.  Every call of timezone.now()  *)
(* reads the variable now, which only moves forward, also while a request  *)
(* is being served: nothing in the views bounds the time between two of a  *)
(* handler's statements.  The program only compares the clock with the     *)
(* start of a show, its booking cutoff and its cancellation deadline, so   *)
(* the clock visits these instants and one instant after each, which       *)
(* stands for all the time up to the next of them.                         *)
(*                                                                         *)
(* Request handlers run concurrently.  A handler is cut into steps at the  *)
(* points where it talks to the store, so that statements of other         *)
(* handlers can fall between its reads and its writes.  The handlers are   *)
(* interchangeable, so a request is given to the first handler that is     *)
(* free.                                                                   *)
(***************************************************************************)
EXTENDS Integers, Sequences, FiniteSets, TLC

\* ---------------------------------------------------------------- bounds
MaxTime == 9         \* the clock stops here
MaxBookings == 2     \* rows the ledger may hold
NumRefs == 6         \* distinct values uuid4()[:8] can take in the model
ShowOneStart == 9    \* date_time of show 1
ShowTwoStart == 8    \* date_time of show 2
ShowOneSeats == 2    \* total_seats of show 1
ShowTwoSeats == 1    \* total_seats of show 2
LimitProcs == 6      \* handlers of LimitSpec: one more than the cap
LimitSeats == 5      \* total_seats of the show of LimitSpec
MaxShows == 3        \* rows the catalog of CatalogSpec may hold
LastShowTime == 2    \* latest date_time a show of CatalogSpec is given

\* ---------------------------------------------------- program constants
BOOKING_CUTOFF == 2          \* timedelta(minutes=30)
CANCELLATION_WINDOW == 8     \* timedelta(hours=2)
MAX_SEATS_PER_USER == 5      \* check_user_booking_limits
NULL == 0 - 1                \* a null DateTimeField

Procs == {1, 2}    \* concurrent request handlers
Users == {"alice", "bob"}
Refs == 1..NumRefs

VARIABLES
    now,        \* the clock timezone.now() reads
    shows,      \* Show table: id -> row
    bookings,   \* Booking table: sequence of rows, the id is the index
    pc,         \* per handler: the step it is at
    obj,        \* per handler: the in-memory instance (Booking, Show) it works on
    last,       \* the response (or unhandled exception) a handler returned last
    outbox      \* the messages handed to send_mail, in the order of the calls

vars == <<now, shows, bookings, pc, obj, last, outbox>>

\* the request handlers of the server
Handlers == DOMAIN pc

\* ------------------------------------------------------------ the tables
Show(screen, dt, seats, active) ==
    [screen_name |-> screen, date_time |-> dt, total_seats |-> seats,
     is_active |-> active]

ShowIds == DOMAIN shows

BookingIds == 1..Len(bookings)

\* an in-memory Booking instance; id = 0 when it has not been inserted.
\* created_at is left out: the reservation core reads it only to order rows
\* (see FirstOf).
Instance(id, user, show, seat, status, cancelled, expires, ref) ==
    [id |-> id, user |-> user, show |-> show, seat_number |-> seat,
     status |-> status, cancelled_at |-> cancelled,
     expires_at |-> expires, booking_reference |-> ref]

NoInstance == Instance(0, "", 0, 0, "", NULL, NULL, 0)

\* the row an instance is stored as
Row(o) ==
    [user |-> o.user, show |-> o.show, seat_number |-> o.seat_number,
     status |-> o.status,
     cancelled_at |-> o.cancelled_at, expires_at |-> o.expires_at,
     booking_reference |-> o.booking_reference]

\* Booking.objects.get(id=...)
Load(id) ==
    LET r == bookings[id] IN
    Instance(id, r.user, r.show, r.seat_number, r.status,
             r.cancelled_at, r.expires_at, r.booking_reference)

\* a response: the operation, the HTTP status, the error text and the seat
\* number the text or the body mentions
Response(op, status, error, seat) ==
    [op |-> op, status |-> status, error |-> error, seat |-> seat]

NoResponse == Response("", 0, "", 0)

\* ------------------------------------------------------------- queries
\* Booking.objects.filter(show=s, seat_number=n, status='booked')
BookedOnSeat(s, n) ==
    {i \in BookingIds : /\ bookings[i].show = s
                        /\ bookings[i].seat_number = n
                        /\ bookings[i].status = "booked"}

\* Booking.objects.filter(user=u, show=s, status='booked')
BookedByUser(u, s) ==
    {i \in BookingIds : /\ bookings[i].user = u
                        /\ bookings[i].show = s
                        /\ bookings[i].status = "booked"}

\* a property that counts the rows of every status
available_seats_any_status(s) ==
    shows[s].total_seats -
    Cardinality({i \in BookingIds : bookings[i].show = s})

\* Show.available_seats: total_seats minus the count of the show's rows with
\* status booked
available_seats(s) ==
    shows[s].total_seats -
    Cardinality({i \in BookingIds : /\ bookings[i].show = s
                                    /\ bookings[i].status = "booked"})

\* utils.get_available_seats_list: the seats of 1..total_seats that no row
\* with status booked holds (as a set: the list is in ascending order)
get_available_seats_list(s) ==
    (1..shows[s].total_seats) \
        {bookings[i].seat_number :
            i \in {j \in BookingIds : /\ bookings[j].show = s
                                      /\ bookings[j].status = "booked"}}

\* Show.is_bookable, with t for timezone.now()
is_bookable(s, t) ==
    /\ shows[s].is_active
    /\ t < shows[s].date_time - BOOKING_CUTOFF
    /\ available_seats(s) > 0

\* .first() under Meta.ordering = ['-created_at']: the row created last.
\* auto_now_add stamps a row before its INSERT reaches the store, so the
\* order of created_at among concurrent inserts is not the order of the
\* ids: any of the rows may come first.
FirstOf(ids) == ids

\* ------------------------------------------------- responses (views.py)
\* the error texts of the views, each under the name of the failure it reports
NotFound == "Show not found"
SeatRequired == "Seat number is required"
SeatNotInteger == "Seat number must be a valid integer"
SeatNotPositive == "Seat number must be positive"
SeatExceeds == "Seat number cannot exceed total_seats"
ShowAlreadyStarted == "Cannot book seats for past shows"
BookingWindowClosed == "Booking closed. Cannot book seats 30 minutes before show time"
UserAlreadyBooked == "You already have seat booked for this show"
UserLimitExceeded == "Maximum 5 seats allowed per user per show"
SeatTaken == "Seat is already booked by"
BookingNotFound == "Booking not found"
Forbidden == "You can only cancel your own bookings"
AlreadyCancelled == "Booking is already cancelled"
ShowAlreadyOccurred == "Cannot cancel bookings for past shows"
CancellationWindowClosed == "Cannot cancel booking less than 2 hours before show time"
\* exceptions no handler catches: the request ends in a server error
SeatValidationError == "ValidationError: Seat is already booked"
PastShowValidationError == "ValidationError: Cannot create bookings for past shows"
SeatExceedsValidationError == "ValidationError: Seat number cannot exceed total_seats"
ReferenceValidationError == "ValidationError: Booking with this Booking reference already exists"
SeatIntegrityError == "IntegrityError: unique_active_booking_per_seat"
ReferenceIntegrityError == "IntegrityError: booking_reference"

InvalidSeat == {SeatRequired, SeatNotInteger, SeatNotPositive, SeatExceeds}

\* request.data.get('seat_number'), as the JSON parser hands it over:
\*   missing   no value (None)
\*   text      a string that is not the numeral of an integer
\*   int       the integer value, or a string that is its numeral
\*   float     the number value + 1/2, a number that is not an integer
\*   bool      true (value 1) or false (value 0)
SeatInput(kind, value) == [kind |-> kind, value |-> value]

SeatInputs ==
    {SeatInput("missing", 0), SeatInput("text", 0)} \cup
    {SeatInput("int", v) : v \in (0 - 1)..(ShowOneSeats + 1)} \cup
    {SeatInput("float", v) : v \in (0 - 1)..(ShowOneSeats + 1)} \cup
    {SeatInput("bool", v) : v \in 0..1}

\* line 142, not seat_number: None, 0 and False are falsy; a number with a
\* fraction never is zero
Falsy(seat) ==
    \/ seat.kind = "missing"
    \/ seat.kind \in {"int", "bool"} /\ seat.value = 0

\* line 148, int(seat_number): a float is truncated towards zero, True is 1;
\* NULL stands for the ValueError or TypeError of a text
int(seat) ==
    CASE seat.kind = "int" -> seat.value
      [] seat.kind = "bool" -> seat.value
      [] seat.kind = "float" -> IF seat.value >= 0 THEN seat.value
                                ELSE seat.value + 1
      [] OTHER -> NULL

\* check_user_booking_limits(user, show)
check_user_booking_limits(u, s) ==
    Cardinality(BookedByUser(u, s)) < MAX_SEATS_PER_USER

\* a view that never looks for a booking the user already holds
existing_user_booking_unchecked(u, s) == {}

\* book_seat, lines 175-179: existing_user_booking, the row .first() may
\* return; empty when the user holds no booked row for the show
existing_user_booking(u, s) == FirstOf(BookedByUser(u, s))

\* a view without the cutoff: bookings are taken up to the start
BookingOpenToStart(s, t) == ~(t > shows[s].date_time)

\* the booking cutoff of book_seat: may a booking still be made at time t
BookingOpen(s, t) == ~(t > shows[s].date_time - BOOKING_CUTOFF)

\* book_seat, lines 133-184, up to the check of the user's own booking: the
\* errors it may return, each with the seat the text names; empty when every
\* check passes
BookSeatUserChecks(u, s, seat) ==
    IF s \notin ShowIds THEN {<<404, NotFound, 0>>}
    ELSE IF Falsy(seat) THEN {<<400, SeatRequired, 0>>}
    ELSE IF seat.kind = "text" THEN {<<400, SeatNotInteger, 0>>}
    ELSE IF int(seat) <= 0 THEN {<<400, SeatNotPositive, 0>>}
    ELSE IF int(seat) > shows[s].total_seats THEN {<<400, SeatExceeds, 0>>}
    ELSE IF shows[s].date_time < now THEN {<<400, ShowAlreadyStarted, 0>>}
    ELSE IF ~BookingOpen(s, now) THEN {<<400, BookingWindowClosed, 0>>}
    ELSE IF existing_user_booking(u, s) # {}
        THEN {<<400, UserAlreadyBooked, bookings[i].seat_number>> :
                 i \in existing_user_booking(u, s)}
    ELSE {}

\* book_seat up to the atomic block, lines 133-190, read from one state of
\* the table
BookSeatChecks(u, s, seat) ==
    IF BookSeatUserChecks(u, s, seat) # {} THEN BookSeatUserChecks(u, s, seat)
    ELSE IF ~check_user_booking_limits(u, s)
        THEN {<<400, UserLimitExceeded, 0>>}
    ELSE {}

BookPcs == {"book_limit", "book_atomic", "book_save", "book_insert"}

\* rows in the ledger plus rows handlers are about to insert
Pending == Len(bookings) + Cardinality({q \in Handlers : pc[q] \in BookPcs})

\* the handler a request arriving now is given to
Free(p) == pc[p] = "idle" /\ \A q \in Handlers : pc[q] = "idle" => p <= q

Goto(p, label, o) ==
    /\ pc' = [pc EXCEPT ![p] = label]
    /\ obj' = [obj EXCEPT ![p] = o]

\* the handler returns a response, or dies of an exception
Return(p, r) ==
    /\ Goto(p, "idle", NoInstance)
    /\ last' = r

BookResponse(status, error, seat) == Response("book", status, error, seat)

\* book_seat, lines 130-190: the request arrives and is checked
BookSeatRejected(p, u, s, seat) ==
    /\ Free(p)
    /\ \E e \in BookSeatChecks(u, s, seat) :
          last' = BookResponse(e[1], e[2], e[3])
    /\ UNCHANGED <<outbox, now, shows, bookings, pc, obj>>

BookSeatAccepted(p, u, s, seat) ==
    /\ Free(p)
    /\ Pending < MaxBookings
    /\ BookSeatChecks(u, s, seat) = {}
    /\ Goto(p, "book_atomic",
            Instance(0, u, s, int(seat), "booked", NULL, NULL, 0))
    /\ UNCHANGED <<outbox, now, shows, bookings, last>>

\* book_seat, lines 130-184, with the query of line 175 as a read of its own:
\* the request has passed the checks up to the user's own booking
BookSeatUserChecked(p, u, s, seat) ==
    /\ Free(p)
    /\ Pending < LimitProcs
    /\ BookSeatUserChecks(u, s, seat) = {}
    /\ Goto(p, "book_limit",
            Instance(0, u, s, int(seat), "booked", NULL, NULL, 0))
    /\ UNCHANGED <<outbox, now, shows, bookings, last>>

\* book_seat, lines 186-190: the count of check_user_booking_limits, a second
\* query, read from the table as it is by then
BookSeatLimitChecked(p) ==
    /\ pc[p] = "book_limit"
    /\ IF check_user_booking_limits(obj[p].user, obj[p].show)
       THEN Goto(p, "book_atomic", obj[p]) /\ last' = last
       ELSE Return(p, BookResponse(400, UserLimitExceeded, 0))
    /\ UNCHANGED <<outbox, now, shows, bookings>>

\* book_seat, lines 192-202: the seat check inside transaction.atomic()
BookSeatTaken(p) ==
    /\ pc[p] = "book_atomic"
    /\ BookedOnSeat(obj[p].show, obj[p].seat_number) # {}
    /\ Return(p, BookResponse(400, SeatTaken, obj[p].seat_number))
    /\ UNCHANGED <<outbox, now, shows, bookings>>

BookSeatFree(p) ==
    /\ pc[p] = "book_atomic"
    /\ BookedOnSeat(obj[p].show, obj[p].seat_number) = {}
    /\ Goto(p, "book_save", obj[p])
    /\ UNCHANGED <<outbox, now, shows, bookings, last>>

\* Booking.clean: the error it raises for the instance, given the rows now
\* in the table; "" when it raises none
BookingClean(o) ==
    IF o.seat_number > shows[o.show].total_seats THEN SeatExceedsValidationError
    ELSE IF shows[o.show].date_time <= now THEN PastShowValidationError
    ELSE IF /\ o.status = "booked"
            /\ BookedOnSeat(o.show, o.seat_number) \ {o.id} # {}
        THEN SeatValidationError
    ELSE ""

\* a reference field without unique=True
ReferenceUniqueMissing(o) == TRUE

\* the unique index on booking_reference (unique=True)
ReferenceUnique(o) ==
    \A i \in BookingIds \ {o.id} :
        bookings[i].booking_reference # o.booking_reference

\* full_clean: clean(), then validate_unique
FullClean(o) ==
    IF BookingClean(o) # "" THEN BookingClean(o)
    ELSE IF ~ReferenceUnique(o) THEN ReferenceValidationError
    ELSE ""

\* a save that leaves expires_at empty
BookingPreSaveNoExpiry(o, ref) ==
    [o EXCEPT
        !.booking_reference = IF o.booking_reference = 0 THEN ref ELSE @,
        !.cancelled_at = IF o.status = "cancelled" /\ o.cancelled_at = NULL
                         THEN now ELSE @]

\* a save that takes a new reference every time
BookingPreSaveNewReference(o, ref) ==
    [o EXCEPT
        !.booking_reference = ref,
        !.cancelled_at = IF o.status = "cancelled" /\ o.cancelled_at = NULL
                         THEN now ELSE @,
        !.expires_at = IF o.expires_at = NULL THEN shows[o.show].date_time ELSE @]

\* a save that does not stamp a cancellation
BookingPreSaveNoStamp(o, ref) ==
    [o EXCEPT
        !.booking_reference = IF o.booking_reference = 0 THEN ref ELSE @,
        !.expires_at = IF o.expires_at = NULL THEN shows[o.show].date_time ELSE @]

\* Booking.save, lines 193-200: the fields save fills in; ref is the value
\* generate_booking_reference would return
BookingPreSave(o, ref) ==
    [o EXCEPT
        !.booking_reference = IF o.booking_reference = 0 THEN ref ELSE @,
        !.cancelled_at = IF o.status = "cancelled" /\ o.cancelled_at = NULL
                         THEN now ELSE @,
        !.expires_at = IF o.expires_at = NULL THEN shows[o.show].date_time ELSE @]

\* the references of the rows and of the instances in memory
UsedRefs ==
    {bookings[i].booking_reference : i \in BookingIds} \cup
    ({obj[q].booking_reference : q \in Handlers} \ {0})

\* generate_booking_reference: any value of the reference space.  References
\* are only ever compared for equality, so every value no row or instance
\* carries behaves alike: the smallest one stands for them all.
generate_booking_reference ==
    UsedRefs \cup {r \in Refs \ UsedRefs : \A q \in Refs \ UsedRefs : r <= q}

\* Booking.objects.create -> Booking.save, lines 192-202: fill in the
\* fields, then full_clean
BookingSaveNew(p) ==
    /\ pc[p] = "book_save"
    /\ \E ref \in generate_booking_reference :
         LET o == BookingPreSave(obj[p], ref) IN
         IF FullClean(o) = ""
         THEN Goto(p, "book_insert", o) /\ last' = last
         ELSE Return(p, BookResponse(500, FullClean(o), 0))
    /\ UNCHANGED <<outbox, now, shows, bookings>>

\* a table without the constraint
SeatConstraintMissing(o) == TRUE

\* a constraint declared without its condition: one row per seat whatever
\* the status
SeatConstraintAnyStatus(o) ==
    {i \in BookingIds : /\ bookings[i].show = o.show
                         /\ bookings[i].seat_number = o.seat_number} \ {o.id} = {}

\* a constraint declared on fields=['show'] alone: one booked row per show
SeatConstraintPerShow(o) ==
    o.status = "booked" =>
        {i \in BookingIds : bookings[i].show = o.show
                             /\ bookings[i].status = "booked"} \ {o.id} = {}

\* Meta.constraints unique_active_booking_per_seat, as the store checks it
\* when a row is written
SeatConstraint(o) ==
    o.status = "booked" => BookedOnSeat(o.show, o.seat_number) \ {o.id} = {}

\* the error of the store when the row is written; "" when it accepts it
StoreCheck(o) ==
    IF ~SeatConstraint(o) THEN SeatIntegrityError
    ELSE IF ~ReferenceUnique(o) THEN ReferenceIntegrityError
    ELSE ""

\* Booking.save, line 203: super().save() inserts the row (auto_now_add
\* sets created_at) and the atomic block commits
BookingInsert(p) ==
    /\ pc[p] = "book_insert"
    /\ IF StoreCheck(obj[p]) = ""
       THEN /\ bookings' = Append(bookings,
                                  Row(obj[p]))
            /\ Return(p, BookResponse(201, "", obj[p].seat_number))
       ELSE /\ bookings' = bookings
            /\ Return(p, BookResponse(500, StoreCheck(obj[p]), 0))
    /\ UNCHANGED <<outbox, now, shows>>

\* ------------------------------------------------------ cancel_booking
\* a view without the deadline: cancellations are taken up to the start
CancellationOpenToStart(s, t) == ~(t > shows[s].date_time)

\* the cancellation deadline of cancel_booking: may a booking of show s
\* still be cancelled at time t
CancellationOpen(s, t) == ~(t > shows[s].date_time - CANCELLATION_WINDOW)

\* Booking.is_cancellable of row id, with t for timezone.now(); Booking.cancel
\* (models.py lines 205-211) goes through exactly when it holds
is_cancellable(id, t) ==
    /\ bookings[id].status = "booked"
    /\ t < shows[bookings[id].show].date_time - CANCELLATION_WINDOW

\* a view that looks at the status before it looks at the owner
CancelChecksStatusFirst(u, id) ==
    IF id \notin BookingIds THEN <<404, BookingNotFound>>
    ELSE IF bookings[id].status = "cancelled" THEN <<400, AlreadyCancelled>>
    ELSE IF bookings[id].user # u THEN <<403, Forbidden>>
    ELSE IF shows[bookings[id].show].date_time < now
        THEN <<400, ShowAlreadyOccurred>>
    ELSE IF ~CancellationOpen(bookings[id].show, now)
        THEN <<400, CancellationWindowClosed>>
    ELSE <<>>

\* cancel_booking, lines 231-257: the error it returns; <<>> when every
\* check passes
CancelChecks(u, id) ==
    IF id \notin BookingIds THEN <<404, BookingNotFound>>
    ELSE IF bookings[id].user # u THEN <<403, Forbidden>>
    ELSE IF bookings[id].status = "cancelled" THEN <<400, AlreadyCancelled>>
    ELSE IF shows[bookings[id].show].date_time < now
        THEN <<400, ShowAlreadyOccurred>>
    ELSE IF ~CancellationOpen(bookings[id].show, now)
        THEN <<400, CancellationWindowClosed>>
    ELSE <<>>

CancelResponse(status, error) == Response("cancel", status, error, 0)

\* a view that sets the status and saves before it looks at the clock
CancelRejectedAfterSave(p, u, id) ==
    /\ Free(p)
    /\ CancelChecks(u, id) # <<>>
    /\ last' = CancelResponse(CancelChecks(u, id)[1], CancelChecks(u, id)[2])
    /\ bookings' =
          IF CancelChecks(u, id)[2] \in {ShowAlreadyOccurred, CancellationWindowClosed}
          THEN [bookings EXCEPT ![id].status = "cancelled",
                                ![id].cancelled_at = now]
          ELSE bookings
    /\ UNCHANGED <<outbox, now, shows, pc, obj>>

\* cancel_booking, lines 231-257: the row is loaded and a check fails
CancelRejected(p, u, id) ==
    /\ Free(p)
    /\ CancelChecks(u, id) # <<>>
    /\ last' = CancelResponse(CancelChecks(u, id)[1], CancelChecks(u, id)[2])
    /\ UNCHANGED <<outbox, now, shows, bookings, pc, obj>>

\* cancel_booking, lines 231-259: the row is loaded, the checks pass and the
\* status of the instance in memory is set
CancelAccepted(p, u, id) ==
    /\ Free(p)
    /\ CancelChecks(u, id) = <<>>
    /\ Goto(p, "cancel_save", [Load(id) EXCEPT !.status = "cancelled"])
    /\ UNCHANGED <<outbox, now, shows, bookings, last>>

\* cancel_booking line 260 -> Booking.save, lines 192-202
BookingSaveCancel(p) ==
    /\ pc[p] = "cancel_save"
    /\ LET o == BookingPreSave(obj[p], 0) IN
         IF FullClean(o) = ""
         THEN Goto(p, "cancel_update", o) /\ last' = last
         ELSE Return(p, CancelResponse(500, FullClean(o)))
    /\ UNCHANGED <<outbox, now, shows, bookings>>

\* Booking.save, line 203: super().save() writes every field of the
\* instance over the row
BookingUpdate(p) ==
    /\ pc[p] = "cancel_update"
    /\ IF StoreCheck(obj[p]) = ""
       THEN /\ bookings' = [bookings EXCEPT ![obj[p].id] = Row(obj[p])]
            /\ Return(p, CancelResponse(200, ""))
       ELSE /\ bookings' = bookings
            /\ Return(p, CancelResponse(500, StoreCheck(obj[p])))
    /\ UNCHANGED <<outbox, now, shows>>

\* --------------------------------------------------------- expiry sweep
\* a sweep that forgets the status filter
ExpiredBookingsAnyStatus(t) ==
    {i \in BookingIds : shows[bookings[i].show].date_time < t}

\* a sweep that takes the shows starting at t as well (lte for lt)
ExpiredBookingsInclusive(t) ==
    {i \in BookingIds : /\ bookings[i].status = "booked"
                        /\ shows[bookings[i].show].date_time <= t}

\* Booking.objects.filter(status='booked', show__date_time__lt=t)
ExpiredBookings(t) ==
    {i \in BookingIds : /\ bookings[i].status = "booked"
                        /\ shows[bookings[i].show].date_time < t}

\* the number the sweep reports: expired_bookings.count() of a dry run, the
\* rows update() matched otherwise
updated_count(t) == Cardinality(ExpiredBookings(t))

\* a sweep that deletes the rows it selects (delete() for update())
SweptDeleting(dry_run, t) ==
    IF dry_run THEN bookings
    ELSE SelectSeq(bookings,
                   LAMBDA r : ~(r.status = "booked" /\ shows[r.show].date_time < t))

\* the table the sweep leaves: update(status='expired') on the selection,
\* nothing with --dry-run
Swept(dry_run, t) ==
    [i \in BookingIds |->
        IF ~dry_run /\ i \in ExpiredBookings(t)
        THEN [bookings[i] EXCEPT !.status = "expired"]
        ELSE bookings[i]]

\* Command.handle, lines 15-33 (and utils.cleanup_expired_bookings): now is
\* read once and one UPDATE sets the status of the rows the filter selects;
\* with --dry-run the rows are only counted
Sweep(dry_run) ==
    /\ bookings' = Swept(dry_run, now)
    /\ UNCHANGED <<outbox, now, shows, pc, obj, last>>

\* -------------------------------------------------------- notifications
\* the message of utils.py lines 15-31 and 48-64, as far as it identifies the
\* booking: the event, the reference, the seat and the address it goes to
Notification(event, o) ==
    [event |-> event, booking_reference |-> o.booking_reference,
     seat_number |-> o.seat_number, recipient |-> o.user]

\* utils.send_booking_confirmation_email: the outbox after the call.  No
\* view, model or command calls it: book_seat logs and returns (views.py
\* lines 211-220).
send_booking_confirmation_email(o) ==
    Append(outbox, Notification("confirmed", o))

\* utils.send_booking_cancellation_email: the outbox after the call.  Nothing
\* calls it either: cancel_booking logs and returns (views.py lines 262-268).
send_booking_cancellation_email(o) ==
    Append(outbox, Notification("cancelled", o))

Init ==
    /\ now = 0
    /\ shows = <<Show("Screen 1", ShowOneStart, ShowOneSeats, TRUE),
                 Show("Screen 2", ShowTwoStart, ShowTwoSeats, FALSE)>>
    /\ bookings = <<>>
    /\ pc = [p \in Procs |-> "idle"]
    /\ obj = [p \in Procs |-> NoInstance]
    /\ last = NoResponse
    /\ outbox = <<>>

\* the instants timezone.now() is compared with: for every show its start
\* (views.py lines 164, 248), its booking cutoff (line 169) and its
\* cancellation deadline (line 253)
Thresholds ==
    {shows[s].date_time - d :
        s \in ShowIds, d \in {0, BOOKING_CUTOFF, CANCELLATION_WINDOW}}

\* the instants the clock visits: the thresholds and the unit after each
Instants ==
    {t \in 0..MaxTime : t = 0 \/ t \in Thresholds \/ (t - 1) \in Thresholds}

\* time passes: the clock moves to the next instant
Tick ==
    /\ now < MaxTime
    /\ now' \in Instants
    /\ now' > now
    /\ \A t \in Instants : t > now => now' <= t
    /\ UNCHANGED <<outbox, shows, bookings, pc, obj, last>>

\* the steps of a handler that is serving a request
Step(p) ==
    \/ BookSeatTaken(p)
    \/ BookSeatFree(p)
    \/ BookingSaveNew(p)
    \/ BookingInsert(p)
    \/ BookingSaveCancel(p)
    \/ BookingUpdate(p)

ShowInputs == 1..(Len(shows) + 1)

BookingInputs == 1..(Len(bookings) + 1)

\* the seat numbers of the largest show, each written as an integer
SeatNumbers == {SeatInput("int", v) : v \in 1..ShowOneSeats}

\* Concurrent handlers.  A request that fails the opening checks of its view
\* touches nothing of the store, and a seat that passes them is from there
\* on the integer int() made of it, so the rejected requests and the other
\* ways to write a seat are left to SeqSpec.
Next ==
    \/ Tick
    \/ \E p \in Procs, u \in Users, s \in ShowIds, seat \in SeatNumbers :
          BookSeatAccepted(p, u, s, seat)
    \/ \E p \in Procs, u \in Users, id \in BookingIds :
          CancelAccepted(p, u, id)
    \/ \E p \in Procs : Step(p)
    \/ \E dry_run \in BOOLEAN : Sweep(dry_run)

Spec == Init /\ [][Next]_vars

\* The handlers of Spec with the sweep run again and again: the command is
\* started periodically by a scheduler outside the program, so a sweep that
\* has rows to expire is eventually run.
FairSpec == Spec /\ WF_vars(Sweep(FALSE))

\* no request is being served
Quiet == \A p \in Procs : pc[p] = "idle"

\* Requests served one after the other, those the views reject included.
NextSeq ==
    \/ Tick
    \/ \E p \in Procs, u \in Users, s \in ShowInputs, seat \in SeatInputs :
          /\ Quiet
          /\ \/ BookSeatRejected(p, u, s, seat)
             \/ BookSeatAccepted(p, u, s, seat)
    \/ \E p \in Procs, u \in Users, id \in BookingInputs :
          /\ Quiet
          /\ \/ CancelRejected(p, u, id)
             \/ CancelAccepted(p, u, id)
    \/ \E p \in Procs : Step(p)
    \/ \E dry_run \in BOOLEAN : Sweep(dry_run)

SeqSpec == Init /\ [][NextSeq]_vars

\* One user, one show with as many seats as the cap of
\* check_user_booking_limits, and one handler more than that, all at one
\* instant.
LimitInit ==
    /\ now = 0
    /\ shows = <<Show("Screen 1", ShowOneStart, LimitSeats, TRUE)>>
    /\ bookings = <<>>
    /\ pc = [p \in 1..LimitProcs |-> "idle"]
    /\ obj = [p \in 1..LimitProcs |-> NoInstance]
    /\ last = NoResponse
    /\ outbox = <<>>

\* the seat the request given to handler p asks for: the user goes through
\* the seats of the show and then starts again
LimitSeatNumber(p) == SeatInput("int", ((p - 1) % LimitSeats) + 1)

\* transaction.atomic(), line 192, under the write lock of the store: the
\* atomic blocks run one at a time.  The lock is taken in any order; the
\* schedules followed here are those that take it in the order of the
\* handlers.
Turn(p) == \A q \in Handlers : q < p => pc[q] = "idle"

\* Concurrent book calls of one user for one show, the two queries of the
\* opening checks being separate reads.
LimitNext ==
    \/ \E p \in Handlers :
          BookSeatUserChecked(p, "alice", 1, LimitSeatNumber(p))
    \/ \E p \in Handlers : BookSeatLimitChecked(p)
    \/ \E p \in Handlers : Turn(p) /\ BookSeatTaken(p)
    \/ \E p \in Handlers : Turn(p) /\ BookSeatFree(p)
    \/ \E p \in Handlers : Turn(p) /\ BookingSaveNew(p)
    \/ \E p \in Handlers : Turn(p) /\ BookingInsert(p)

LimitSpec == LimitInit /\ [][LimitNext]_vars

\* -------------------------------------------------------------- catalog
\* an in-memory Show instance; id = 0 when it has not been inserted
ShowInstance(id, screen, dt, seats, active) ==
    [id |-> id, screen_name |-> screen, date_time |-> dt,
     total_seats |-> seats, is_active |-> active]

\* the row a Show instance is stored as
ShowRow(o) == Show(o.screen_name, o.date_time, o.total_seats, o.is_active)

\* the errors of Show.save
ShowDateValidationError == "ValidationError: Show date and time must be in the future"
ShowScreenValidationError == "ValidationError: Screen is already booked at this time"
ShowIntegrityError == "IntegrityError: unique_together screen_name, date_time"

\* Show.clean, lines 91-94: the other rows with the screen and the start of
\* the instance
conflicting_shows(o) ==
    {s \in ShowIds \ {o.id} : /\ shows[s].screen_name = o.screen_name
                              /\ shows[s].date_time = o.date_time}

\* Show.save line 102, full_clean: the validator of date_time
\* (validate_future_datetime), then clean (lines 84-99) and validate_unique
\* for unique_together, which look for the same rows; "" when none raises
ShowFullClean(o) ==
    IF o.date_time <= now THEN ShowDateValidationError
    ELSE IF conflicting_shows(o) # {} THEN ShowScreenValidationError
    ELSE ""

\* a Show table without unique_together
UniqueTogetherMissing(o) == TRUE

\* Meta.unique_together = ['screen_name', 'date_time'], as the store checks
\* its index when a row is written
UniqueTogether(o) == conflicting_shows(o) = {}

ShowResponse(error) == Response("save_show", 0, error, 0)

\* Show rows in the catalog plus rows handlers are about to insert
PendingShows ==
    Len(shows) +
    Cardinality({q \in Handlers : pc[q] = "show_write" /\ obj[q].id = 0})

\* the instance a save is called on: a new one (id 0) or the row id with
\* its screen and start edited
EditedShow(id, screen, dt) ==
    IF id = 0 THEN ShowInstance(0, screen, dt, 1, TRUE)
    ELSE ShowInstance(id, screen, dt,
                      shows[id].total_seats, shows[id].is_active)

\* Show.save, lines 101-102, called by the admin or by Show.objects.create:
\* full_clean raises
ShowSaveRejected(p, id, screen, dt) ==
    /\ Free(p)
    /\ ShowFullClean(EditedShow(id, screen, dt)) # ""
    /\ last' = ShowResponse(ShowFullClean(EditedShow(id, screen, dt)))
    /\ UNCHANGED <<outbox, now, shows, bookings, pc, obj>>

\* Show.save, lines 101-102: full_clean passes
ShowSaveCleaned(p, id, screen, dt) ==
    /\ Free(p)
    /\ id = 0 => PendingShows < MaxShows
    /\ ShowFullClean(EditedShow(id, screen, dt)) = ""
    /\ Goto(p, "show_write", EditedShow(id, screen, dt))
    /\ UNCHANGED <<outbox, now, shows, bookings, last>>

\* Show.save, line 103: super().save() inserts the row or writes it over
\* the row of its id
ShowWrite(p) ==
    /\ pc[p] = "show_write"
    /\ IF UniqueTogether(obj[p])
       THEN /\ shows' = IF obj[p].id = 0
                         THEN Append(shows, ShowRow(obj[p]))
                         ELSE [shows EXCEPT ![obj[p].id] = ShowRow(obj[p])]
            /\ Return(p, ShowResponse(""))
       ELSE /\ shows' = shows
            /\ Return(p, ShowResponse(ShowIntegrityError))
    /\ UNCHANGED <<outbox, now, bookings>>

\* a catalog of one show and no booking
CatalogInit ==
    /\ now = 0
    /\ shows = <<Show("Screen 1", LastShowTime, 1, TRUE)>>
    /\ bookings = <<>>
    /\ pc = [p \in Procs |-> "idle"]
    /\ obj = [p \in Procs |-> NoInstance]
    /\ last = NoResponse
    /\ outbox = <<>>

Screens == {"Screen 1", "Screen 2"}

ShowTimes == 1..LastShowTime

\* Shows are created and edited by concurrent saves while time passes.
CatalogNext ==
    \/ Tick
    \/ \E p \in Procs, id \in {0} \cup ShowIds,
          screen \in Screens, dt \in ShowTimes :
          \/ ShowSaveRejected(p, id, screen, dt)
          \/ ShowSaveCleaned(p, id, screen, dt)
    \/ \E p \in Procs : ShowWrite(p)

CatalogSpec == CatalogInit /\ [][CatalogNext]_vars

\* ================================================================ claims
Booked(i) == bookings[i].status = "booked"

ShowOf(i) == shows[bookings[i].show]

\* handler p ends its request in this step
Returns(p) == pc[p] # "idle" /\ pc'[p] = "idle"

\* C1: in every reachable state, for every show and seat number at most one
\* row with status booked exists.
C1_SeatUniqueness ==
    \A i \in BookingIds, j \in BookingIds :
        (/\ Booked(i) /\ Booked(j)
         /\ bookings[i].show = bookings[j].show
         /\ bookings[i].seat_number = bookings[j].seat_number) => i = j

\* two handlers went for the same free seat, one row was inserted and the
\* store turned the other insert down
C1_Witness ==
    /\ last = BookResponse(500, SeatIntegrityError, 0)
    /\ \E i \in BookingIds : Booked(i)

\* C2: a book call that loses a free seat to the concurrent call of another
\* user returns the SeatTaken failure (status 400), wherever in the call the
\* other booking lands, and never ends in an unhandled exception.
C2_LoserGetsSeatTaken ==
    [][\A p \in Procs :
          (/\ pc[p] \in BookPcs
           /\ Returns(p)
           /\ shows[obj[p].show].date_time > now
           /\ \E i \in BookedOnSeat(obj[p].show, obj[p].seat_number) :
                 bookings[i].user # obj[p].user)
          => last' = BookResponse(400, SeatTaken, obj[p].seat_number)]_vars

\* C3: in every reachable state a user has at most one row with status
\* booked for a show.
C3_OneSeatPerUserPerShow ==
    \A i \in BookingIds, j \in BookingIds :
        (/\ Booked(i) /\ Booked(j)
         /\ bookings[i].show = bookings[j].show
         /\ bookings[i].user = bookings[j].user) => i = j

\* C4: a row's status changes only from booked to cancelled, in the write of
\* a cancel of that row, or from booked to expired, in a sweep; a cancelled
\* or expired row keeps its status.  No row disappears.
C4_StatusTransitions ==
    [][/\ Len(bookings') >= Len(bookings)
       /\ \A i \in BookingIds :
            bookings'[i].status # bookings[i].status =>
               /\ bookings[i].status = "booked"
               /\ \/ /\ bookings'[i].status = "cancelled"
                     /\ \E p \in Procs : /\ pc[p] = "cancel_update"
                                         /\ obj[p].id = i
                                         /\ Returns(p)
                  \/ /\ bookings'[i].status = "expired"
                     /\ pc' = pc
                     /\ ShowOf(i).date_time < now]_vars

\* C5: the owner's cancel of a booked row at exactly date_time - 2h does not
\* pass the checks of cancel_booking (it fails with CancellationWindowClosed).
C5_CancelAtDeadlineFails ==
    [][\A p \in Procs, u \in Users, id \in BookingIds :
          (/\ bookings[id].user = u
           /\ Booked(id)
           /\ now = ShowOf(id).date_time - CANCELLATION_WINDOW)
          => ~CancelAccepted(p, u, id)]_vars

\* C6: a book call at exactly date_time - 30min does not pass the checks of
\* book_seat (it fails with BookingWindowClosed).
C6_BookAtCutoffFails ==
    [][\A p \in Procs, u \in Users, s \in ShowIds, seat \in SeatInputs :
          now = shows[s].date_time - BOOKING_CUTOFF
          => ~BookSeatAccepted(p, u, s, seat)]_vars

\* user u has a row with status booked for show s
Holds(u, s) ==
    \E i \in BookingIds :
        bookings[i].user = u /\ bookings[i].show = s /\ Booked(i)

\* the seats of those rows
SeatsHeld(u, s) ==
    {bookings[i].seat_number :
        i \in {j \in BookingIds : /\ bookings[j].user = u
                                  /\ bookings[j].show = s
                                  /\ Booked(j)}}

\* C7 as claimed: while a user holds a booked row for show S, every book call
\* of that user for S, whatever seat it asks for, is answered with
\* UserAlreadyBooked.
C7_AlwaysUserAlreadyBooked ==
    \A u \in Users, s \in ShowIds, seat \in SeatInputs :
        Holds(u, s) =>
            /\ BookSeatChecks(u, s, seat) # {}
            /\ \A e \in BookSeatChecks(u, s, seat) : e[2] = UserAlreadyBooked

\* the seat passes the seat checks of book_seat for show s
ValidSeat(s, seat) ==
    /\ ~Falsy(seat)
    /\ seat.kind # "text"
    /\ int(seat) >= 1 /\ int(seat) <= shows[s].total_seats

\* C7 as amended: while a user holds a booked row for show S, every book call
\* of that user for S fails its opening checks, so that no row is created;
\* when the seat passes the seat checks and now <= date_time - 30min the
\* failure is UserAlreadyBooked and names a seat the user holds; otherwise it
\* is the failure of the seat or time check, which comes first.
C7_HolderIsRejected ==
    \A u \in Users, s \in ShowIds, seat \in SeatInputs :
        Holds(u, s) =>
            /\ BookSeatChecks(u, s, seat) # {}
            /\ \A e \in BookSeatChecks(u, s, seat) :
                  IF ValidSeat(s, seat) /\ now <= shows[s].date_time - BOOKING_CUTOFF
                  THEN e[1] = 400 /\ e[2] = UserAlreadyBooked /\ e[3] \in SeatsHeld(u, s)
                  ELSE e[2] \in InvalidSeat \cup {ShowAlreadyStarted, BookingWindowClosed}

\* a user who holds a seat has just been told so
C7_Witness ==
    /\ last.error = UserAlreadyBooked
    /\ \E u \in Users, s \in ShowIds : Holds(u, s) /\ last.seat \in SeatsHeld(u, s)

\* C8: in every reachable state cancelled_at is set if and only if the
\* status is cancelled.
C8_CancelledAtIffCancelled ==
    \A i \in BookingIds :
        (bookings[i].cancelled_at # NULL) <=> (bookings[i].status = "cancelled")

\* a cancelled row, with its timestamp, and the booked row that took its
\* seat, without one
C8_Witness ==
    \E i \in BookingIds, j \in BookingIds :
        /\ bookings[i].status = "cancelled" /\ bookings[i].cancelled_at # NULL
        /\ Booked(j) /\ bookings[j].cancelled_at = NULL
        /\ bookings[i].show = bookings[j].show
        /\ bookings[i].seat_number = bookings[j].seat_number

\* C9: once cancelled_at is set, no step changes it.
C9_CancelledAtSetOnce ==
    [][\A i \in BookingIds :
          bookings[i].cancelled_at # NULL =>
             bookings'[i].cancelled_at = bookings[i].cancelled_at]_vars

\* C10: a sweep at time now sets status to expired on exactly the booked rows
\* whose show has date_time < now, and changes nothing else of any row.
C10_SweepExpiresExactlyDue ==
    [][Sweep(FALSE) =>
          /\ Len(bookings') = Len(bookings)
          /\ \A i \in BookingIds :
                /\ bookings'[i].status = "expired" /\ Booked(i)
                      <=> Booked(i) /\ ShowOf(i).date_time < now
                /\ ~(Booked(i) /\ ShowOf(i).date_time < now)
                      => bookings'[i] = bookings[i]
                /\ [bookings'[i] EXCEPT !.status = ""] =
                      [bookings[i] EXCEPT !.status = ""]]_vars

\* a sweep at the very start of show 1 has expired a row of show 2 and left
\* a row of show 1 booked
C10_Witness ==
    /\ now = shows[1].date_time
    /\ \E i \in BookingIds, j \in BookingIds :
          /\ bookings[i].status = "expired" /\ ShowOf(i).date_time < now
          /\ Booked(j) /\ bookings[j].show = 1

\* C11: right after a sweep, a second sweep with the same now changes no
\* row and reports zero updated rows.
C11_SweepIdempotent ==
    [][Sweep(FALSE) =>
          (/\ Swept(FALSE, now) = bookings
           /\ updated_count(now) = 0)']_vars

\* a sweep has expired a row; nothing is left for a second one
C11_Witness ==
    /\ \E i \in BookingIds : bookings[i].status = "expired"
    /\ updated_count(now) = 0
    /\ Swept(FALSE, now) = bookings

\* C12: a book call that succeeds adds exactly one row, with the user, show
\* and seat of the request, status booked, no cancelled_at, expires_at equal
\* to the show's date_time and a reference; it changes no other row, and no
\* other step adds a row.
C12_BookAddsOneBooking ==
    [][/\ \A p \in Procs :
             /\ (pc[p] \in BookPcs /\ pc'[p] \in BookPcs) =>
                    /\ obj'[p].user = obj[p].user
                    /\ obj'[p].show = obj[p].show
                    /\ obj'[p].seat_number = obj[p].seat_number
             /\ (pc[p] \in BookPcs /\ Returns(p) /\ last'.status = 201) =>
                    /\ Len(bookings') = Len(bookings) + 1
                    /\ \A i \in BookingIds : bookings'[i] = bookings[i]
                    /\ LET b == bookings'[Len(bookings')] IN
                          /\ b.user = obj[p].user
                          /\ b.show = obj[p].show
                          /\ b.seat_number = obj[p].seat_number
                          /\ b.status = "booked"
                          /\ b.cancelled_at = NULL
                          /\ b.expires_at = shows[b.show].date_time
                          /\ b.booking_reference \in Refs
                    /\ last' = BookResponse(201, "", obj[p].seat_number)
       /\ Len(bookings') # Len(bookings) =>
             \E p \in Procs :
                pc[p] \in BookPcs /\ Returns(p) /\ last'.status = 201]_vars

\* a second row has just been added next to a row that is no longer booked
C12_Witness ==
    /\ last.op = "book" /\ last.status = 201
    /\ Len(bookings) = 2
    /\ ~Booked(1)
    /\ Booked(2) /\ bookings[2].seat_number = last.seat
    /\ bookings[2].expires_at = ShowOf(2).date_time

\* C13: a cancel that succeeds stamps cancelled_at with the clock it reads
\* when it saves, and its write changes the status of its row to cancelled
\* and cancelled_at to that stamp; user, show, seat, reference and expires_at
\* of the row and all other rows stay as they are.
C13_CancelChangesStatusAndStamp ==
    [][\A p \in Procs :
          /\ (pc[p] = "cancel_save" /\ pc'[p] = "cancel_update") =>
                 obj'[p] = [obj[p] EXCEPT !.cancelled_at = now]
          /\ (pc[p] = "cancel_update" /\ Returns(p) /\ last'.status = 200) =>
                 /\ obj[p].cancelled_at \in 0..now
                 /\ bookings' =
                       [bookings EXCEPT ![obj[p].id] =
                           [@ EXCEPT !.status = "cancelled",
                                     !.cancelled_at = obj[p].cancelled_at]]]_vars

\* a cancel has just succeeded on one row while the other row is booked
C13_Witness ==
    /\ last = CancelResponse(200, "")
    /\ \E i \in BookingIds, j \in BookingIds :
          /\ bookings[i].status = "cancelled" /\ bookings[i].cancelled_at = now
          /\ Booked(j)

\* C14: a cancel by a user who does not own the row fails with Forbidden
\* (status 403), whatever the status of the row and the time, and leaves the
\* table as it is.
C14_NotOwnerForbidden ==
    [][\A p \in Procs, u \in Users, id \in BookingIds :
          bookings[id].user # u =>
             /\ CancelChecks(u, id) = <<403, Forbidden>>
             /\ ~CancelAccepted(p, u, id)
             /\ CancelRejected(p, u, id) =>
                    /\ last' = CancelResponse(403, Forbidden)
                    /\ bookings' = bookings]_vars

\* a cancel has been refused as Forbidden after the shows have started, no
\* row being booked any more
C14_Witness ==
    /\ last = CancelResponse(403, Forbidden)
    /\ Len(bookings) = 2
    /\ bookings[1].status = "cancelled" /\ bookings[2].status = "expired"

\* the reason the design gives for the cancel of an expired booking; no view
\* returns it
AlreadyExpired == "Booking is already expired"

\* C15: the owner's cancel of a row that is not booked fails with
\* AlreadyCancelled when the row is cancelled and with AlreadyExpired when it
\* is expired.
C15_StatusSpecificReason ==
    \A u \in Users, id \in BookingIds :
        (bookings[id].user = u /\ ~Booked(id)) =>
            CancelChecks(u, id) =
                <<400, IF bookings[id].status = "cancelled"
                       THEN AlreadyCancelled ELSE AlreadyExpired>>

C17_LimitNeverReached ==
    last.error # UserLimitExceeded

\* C18: in every reachable state the rows have pairwise distinct references.
C18_ReferencesDistinct ==
    \A i \in BookingIds, j \in BookingIds :
        bookings[i].booking_reference = bookings[j].booking_reference => i = j

\* a book call drew the reference of an existing row and added nothing
C18_Witness ==
    /\ last.op = "book"
    /\ last.error \in {ReferenceValidationError, ReferenceIntegrityError}
    /\ Len(bookings) = 1

\* the seat of the request is a positive integer within the show's range
IsSeatNumber(s, seat) ==
    seat.kind = "int" /\ seat.value >= 1 /\ seat.value <= shows[s].total_seats

\* C19: a book call whose seat_number is not a positive integer
\* <= total_seats fails the seat checks with InvalidSeat.
C19_InvalidSeatRejected ==
    \A u \in Users, s \in ShowIds, seat \in SeatInputs :
        ~IsSeatNumber(s, seat) =>
            /\ BookSeatChecks(u, s, seat) # {}
            /\ \A e \in BookSeatChecks(u, s, seat) : e[2] \in InvalidSeat

\* C20 as claimed: the owner's cancel just after date_time - 2h, of a seat
\* booked at date_time - 2h, passes the checks of cancel_booking.
C20_CancelJustAfterBookingSucceeds ==
    \A u \in Users, id \in BookingIds :
        (/\ bookings[id].user = u
         /\ Booked(id)
         /\ now = ShowOf(id).date_time - CANCELLATION_WINDOW + 1)
        => CancelChecks(u, id) = <<>>

\* C20 as amended: with a seat booked for a show that starts in 2h, a second
\* book call for the seat fails with SeatTaken; the owner's cancel at any
\* later instant up to the start fails with CancellationWindowClosed and
\* leaves the row booked, so the seat stays taken.
C20_CancelAfterDeadlineFails ==
    [][/\ \A p \in Procs, u \in Users, id \in BookingIds :
             (/\ bookings[id].user = u
              /\ Booked(id)
              /\ now > ShowOf(id).date_time - CANCELLATION_WINDOW
              /\ now <= ShowOf(id).date_time) =>
                 /\ ~CancelAccepted(p, u, id)
                 /\ CancelChecks(u, id) = <<400, CancellationWindowClosed>>
                 /\ CancelRejected(p, u, id) =>
                        /\ bookings' = bookings
                        /\ BookedOnSeat(bookings[id].show,
                                        bookings[id].seat_number)' = {id}
       /\ \A p \in Procs :
             (/\ pc[p] = "book_atomic"
              /\ BookedOnSeat(obj[p].show, obj[p].seat_number) # {}
              /\ Returns(p)) =>
                 /\ last' = BookResponse(400, SeatTaken, obj[p].seat_number)
                 /\ bookings' = bookings]_vars

\* the owner's cancel one instant after the deadline has just been refused
C20_Witness ==
    /\ last = CancelResponse(400, CancellationWindowClosed)
    /\ \E i \in BookingIds :
          Booked(i) /\ now = ShowOf(i).date_time - CANCELLATION_WINDOW + 1

\* C21: every book call that succeeds hands one booking-confirmed message
\* to the notifier and every cancel that succeeds one cancellation message,
\* each with the reference, the seat and the recipient of the booking; a
\* call that fails hands over none.
C21_SuccessEmitsNotification ==
    [][\A p \in Procs :
          Returns(p) =>
             outbox' =
                IF last'.status = 201
                    THEN send_booking_confirmation_email(obj[p])
                ELSE IF last'.status = 200
                    THEN send_booking_cancellation_email(obj[p])
                ELSE outbox]_vars

\* the (user, show, seat) triples of the rows with status booked
BookedPairs ==
    {<<bookings[i].user, bookings[i].show, bookings[i].seat_number>> :
        i \in {j \in BookingIds : Booked(j)}}

\* the failures of a save that drew a reference already in use
ReferenceErrors == {ReferenceValidationError, ReferenceIntegrityError}

UniqueShows ==
    \A s \in ShowIds, t \in ShowIds :
        (/\ shows[s].screen_name = shows[t].screen_name
         /\ shows[s].date_time = shows[t].date_time) => s = t

\* C24: in every reachable state no two shows have the same screen_name and
\* date_time; a save of a show whose screen and start are those of another
\* show in the catalog does not pass full_clean, and a write of such a show
\* is turned down by the store; either way the catalog stays as it is.
C24_ScreenStartUnique ==
    /\ UniqueShows
    /\ [][/\ UniqueShows'
          /\ \A p \in Procs, id \in {0} \cup ShowIds,
                screen \in Screens, dt \in ShowTimes :
                conflicting_shows(EditedShow(id, screen, dt)) # {} =>
                   /\ ~ShowSaveCleaned(p, id, screen, dt)
                   /\ ShowSaveRejected(p, id, screen, dt) => shows' = shows
          /\ \A p \in Procs :
               (/\ pc[p] = "show_write"
                /\ conflicting_shows(obj[p]) # {}
                /\ Returns(p)) =>
                   /\ shows' = shows
                   /\ last' = ShowResponse(ShowIntegrityError)]_vars

\* of two concurrent saves for the same screen and start one has been
\* written and the other has just been turned down by the store
C24_Witness ==
    /\ last = ShowResponse(ShowIntegrityError)
    /\ Len(shows) >= 2
    /\ \A p \in Procs : pc[p] = "idle"

\* C25: a book or cancel call that returns a failure writes nothing: a step
\* that changes the ledger is either the commit of a call that returns 201
\* or 200, or a sweep; every other step of a call, the one that returns its
\* failure included, leaves every row as it is and adds none.
C25_FailureLeavesLedger ==
    [][bookings' # bookings =>
          \/ /\ pc' = pc /\ last' = last
             /\ bookings' = Swept(FALSE, now)
          \/ \E p \in Procs :
                /\ Returns(p)
                /\ \/ pc[p] = "book_insert" /\ last'.status = 201
                   \/ pc[p] = "cancel_update" /\ last'.status = 200]_vars

\* a book call for a seat another user holds has just failed inside the
\* atomic block; the holder's row is as it was
C25_Witness ==
    /\ last.op = "book" /\ last.status = 400 /\ last.error = SeatTaken
    /\ \A p \in Procs : pc[p] = "idle"
    /\ Len(bookings) = 1 /\ Booked(1)
    /\ bookings[1].seat_number = last.seat

\* C26: a book call passes the checks of book_seat, and so goes on to create
\* a row, only when the show's is_bookable holds at the time of the call; in
\* particular never for a show whose is_active is false.
C26_BookOnlyWhenBookable ==
    [][\A p \in Procs, u \in Users, s \in ShowIds, seat \in SeatNumbers :
          BookSeatAccepted(p, u, s, seat) =>
             shows[s].is_active /\ is_bookable(s, now)]_vars

\* C27: for every row and every time, is_cancellable is true exactly when
\* the owner's cancel at that time passes the checks of cancel_booking.
C27_CancellableIffCancelSucceeds ==
    \A id \in BookingIds :
        is_cancellable(id, now) <=> CancelChecks(bookings[id].user, id) = <<>>

\* the cancelled rows of other users on the seat handler p is booking
CancelledOnSeat(p) ==
    {i \in BookingIds : /\ bookings[i].show = obj[p].show
                         /\ bookings[i].seat_number = obj[p].seat_number
                         /\ bookings[i].status = "cancelled"
                         /\ bookings[i].user # obj[p].user}

C29_DueBookingsExpire ==
    /\ \A i \in 1..MaxBookings :
          (i \in BookingIds /\ Booked(i) /\ ShowOf(i).date_time < now)
             ~> (i \in BookingIds /\ bookings[i].status = "expired")
    /\ [][\A i \in BookingIds :
             (Booked(i) /\ ShowOf(i).date_time < now) =>
                /\ bookings'[i].status # "booked" =>
                       /\ bookings' = Swept(FALSE, now)
                       /\ bookings'[i].status = "expired"
                /\ CancelChecks(bookings[i].user, i) = <<400, ShowAlreadyOccurred>>
                /\ \A u \in Users, seat \in SeatNumbers :
                      ValidSeat(bookings[i].show, seat) =>
                         BookSeatChecks(u, bookings[i].show, seat) =
                            {<<400, ShowAlreadyStarted, 0>>}]_vars

\* C30: in every reachable state each show's available_seats is at least 0
\* and at most total_seats and is the number of seats no booked row holds;
\* cancelled and expired rows do not count: a show none of whose rows is
\* booked has all its seats available.
C30_AvailableSeatsInRange ==
    \A s \in ShowIds :
        /\ 0 <= available_seats(s)
        /\ available_seats(s) <= shows[s].total_seats
        /\ available_seats(s) = Cardinality(get_available_seats_list(s))
        /\ (\A i \in BookingIds : bookings[i].show = s => ~Booked(i))
              => available_seats(s) = shows[s].total_seats

\* a show is sold out while a cancelled or expired row for it is in the
\* ledger
C30_Witness ==
    \E s \in ShowIds :
        /\ available_seats(s) = 0
        /\ \E i \in BookingIds : bookings[i].show = s /\ ~Booked(i)
====
